---- MODULE Spec2Model ----
(***************************************************************************)
(* Graph diameter of a rooted tree, as computed by the SNT script          *)
(* templates Analysis/Graph_Analysis.py and Analysis/Graph_Analysis_Demo.py *)
(* (graph_diameter, graph_diameter_dsp and the part of run() that feeds    *)
(* them).  The graph object itself (DirectedWeightedGraph: getRoot,        *)
(* getTips, getShortestPath) is Java code that the scripts only call; it   *)
(* is modelled from the specification's description of it.                 *)
(* Edge weights are distances; they are modelled by small naturals.        *)
(*                                                                         *)
(* Further script templates are modelled below, each with a specification  *)
(* of its own and its state in one record variable: Tracing/Path_Player.py *)
(* (pp), Batch/Filter_Multiple_Images.py (fmi), Time-lapses/               *)
(* Apply_3D_Drift_Corrections.py (roi, opt, sp), Skeletons_and_ROIs/       *)
(* Classify_Particles_Using_Skeleton.py (cl), Tracing/                     *)
(* Scripted_Tracing_Demo_(Interactive).py (st), Tracing/                   *)
(* Reconstruction_From_Skeleton.py (ctd) and Analysis/                     *)
(* Sholl_Merge_Grouped_Profiles.py (sm).                                   *)
(***************************************************************************)
EXTENDS Integers, Sequences, FiniteSets, TLC

MaxNodes == 4
MaxWeight == 2
MaxCalls == 2
MaxDepth == 3
MaxPaths == 2
MaxPathSize == 2
MaxFiles == 2
MaxScales == 2
MaxScale == 2
MaxSpacing == 2
MaxImage == 2
MaxShift == 1
MaxIntensity == 8
MaxFrames == 2
MaxCoord == 1
MaxFeatures == 2
MaxParticles == 1
MaxCutoff == 2

VARIABLES graph, pc, err, root, tips,
          i, max_path_length, longest_shortest_path, visited,
          dsp_i, dsp_max_path_length, dsp_longest_shortest_path,
          length, path, returned,
          pp, fmi, roi, opt, sp, cl, st, ctd, sm

\* The state of the graph analysis.
gvars == <<graph, pc, err, root, tips,
           i, max_path_length, longest_shortest_path, visited,
           dsp_i, dsp_max_path_length, dsp_longest_shortest_path,
           length, path, returned>>

\* The state of the other scripts.
scripts == <<pp, fmi, roi, opt, sp, cl, st, ctd, sm>>

vars == <<gvars, scripts>>

\* A script that is not running.
Idle == [pc |-> "idle"]

ScriptsIdle ==
    /\ pp = Idle
    /\ fmi = Idle
    /\ roi = Idle
    /\ opt = Idle
    /\ sp = Idle
    /\ cl = Idle
    /\ st = Idle
    /\ ctd = Idle
    /\ sm = Idle

(***************************************************************************)
(* Values                                                                  *)
(***************************************************************************)
\* Python's None / Java's null in a variable that otherwise holds a path.
None == [none |-> TRUE, nodes |-> <<>>, length |-> 0]

\* A path object: its node sequence and its length (getLength / getWeight).
MkPath(ns, len) == [none |-> FALSE, nodes |-> ns, length |-> len]

\* Value of root when the graph has none.
NoNode == 0

Range(s) == {s[k] : k \in DOMAIN s}

Last(s) == s[Len(s)]

(***************************************************************************)
(* The graph: vertices V, directed edges E, weights w, and the iteration   *)
(* order of the vertex set.                                                *)
(***************************************************************************)
InDegree(g, v) == Cardinality({e \in g.E : e[2] = v})

OutDegree(g, v) == Cardinality({e \in g.E : e[1] = v})

\* Sum of the edge weights along a node sequence that follows edges.
RECURSIVE PathWeight(_, _)
PathWeight(g, ns) ==
    IF Len(ns) <= 1 THEN 0
    ELSE g.w[<<ns[1], ns[2]>>] + PathWeight(g, Tail(ns))

\* graph.getRoot(): the unique node with in-degree 0; fails when there is
\* none or more than one.
getRoot(g) ==
    LET roots == {v \in g.V : InDegree(g, v) = 0}
    IN  IF Cardinality(roots) = 1
        THEN [ok |-> TRUE, node |-> CHOOSE v \in roots : TRUE]
        ELSE [ok |-> FALSE, node |-> NoNode]

\* graph.getTips(): the nodes with out-degree 0, in vertex iteration order.
IsTip(g, v) == OutDegree(g, v) = 0

getTips(g) == SelectSeq(g.order, LAMBDA v : IsTip(g, v))

\* All simple directed paths that extend one of the paths in frontier by at
\* most k edges.
RECURSIVE PathsFrom(_, _, _)
PathsFrom(g, frontier, k) ==
    IF k = 0 \/ frontier = {} THEN frontier
    ELSE LET ext == {pe \in frontier \X g.E :
                        pe[2][1] = Last(pe[1]) /\ pe[2][2] \notin Range(pe[1])}
         IN  frontier \cup PathsFrom(g, {Append(pe[1], pe[2][2]) : pe \in ext}, k - 1)

\* graph.getShortestPath(a, b): the path from a to b of least total weight
\* (in a tree: the unique path); None when b cannot be reached from a.
\* (cands ranges over a singleton set so that it is computed once.)
getShortestPath(g, a, b) ==
    LET Least(cands) ==
            IF cands = {} THEN None
            ELSE CHOOSE r \in {MkPath(p, PathWeight(g, p)) : p \in cands} :
                     \A q \in cands : r.length <= PathWeight(g, q)
    IN  CHOOSE r \in {Least(cands) :
                         cands \in {{p \in PathsFrom(g, {<<a>>}, Cardinality(g.V)) :
                                        Last(p) = b}}} : TRUE

(***************************************************************************)
(* JGraphT's DijkstraShortestPath(graph).getPath(a, b)                     *)
(***************************************************************************)
\* The unsettled vertices next to a settled one, each with its tentative
\* distance and its predecessor.
Tentative(g, settled) ==
    LET done == {s.node : s \in settled}
        reach == {se \in settled \X g.E :
                     se[2][1] = se[1].node /\ se[2][2] \notin done}
    IN  {[node |-> se[2][2],
          dist |-> se[1].dist + g.w[se[2]],
          pred |-> se[1].node] : se \in reach}

Closest(cand) == CHOOSE c \in cand : \A d \in cand : c.dist <= d.dist

\* Dijkstra's algorithm from a settled source: in each round the unsettled
\* vertex of least tentative distance is settled, with its distance and its
\* predecessor on a shortest path.  (cand and next range over singleton sets
\* so that each is computed once per round.)
RECURSIVE DijkstraRun(_, _)
DijkstraRun(g, settled) ==
    UNION {IF cand = {} THEN settled
           ELSE UNION {DijkstraRun(g, settled \cup {next}) : next \in {Closest(cand)}}
           : cand \in {Tentative(g, settled)}}

RECURSIVE PredPath(_, _, _)
PredPath(settled, a, v) ==
    IF v = a THEN <<a>>
    ELSE LET s == CHOOSE t \in settled : t.node = v
         IN  Append(PredPath(settled, a, s.pred), v)

\* getPath(a, b): the path to b with its weight; null when b is not reached.
\* (settled ranges over a singleton set so that it is computed once.)
DijkstraShortestPath(g, a, b) ==
    CHOOSE r \in
        {IF a \notin g.V \/ ~(\E s \in settled : s.node = b) THEN None
         ELSE MkPath(PredPath(settled, a, b),
                     (CHOOSE s \in settled : s.node = b).dist)
         : settled \in {DijkstraRun(g, {[node |-> a, dist |-> 0, pred |-> a]})}} : TRUE

(***************************************************************************)
(* Input graphs                                                            *)
(***************************************************************************)
RECURSIVE Ascending(_)
Ascending(n) == IF n = 0 THEN <<>> ELSE Append(Ascending(n - 1), n)

Reverse(s) == [k \in 1..Len(s) |-> s[Len(s) + 1 - k]]

Orders(n) == {Ascending(n), Reverse(Ascending(n))}

\* Rooted trees on 1..n: node k > 1 hangs below an earlier node.
ParentMaps(n) == {p \in [2..n -> 1..n] : \A k \in 2..n : p[k] < k}

MkTree(n, p, wt, ord) ==
    LET E == {<<p[k], k>> : k \in 2..n}
    IN  [V |-> 1..n, E |-> E, w |-> [e \in E |-> wt[e[2]]], order |-> ord]

TreeGraphs ==
    UNION {{MkTree(n, p, wt, ord) :
                p \in ParentMaps(n), wt \in [2..n -> 0..MaxWeight], ord \in Orders(n)} :
           n \in 1..MaxNodes}

UniformTrees ==
    UNION {{MkTree(n, p, [k \in 2..n |-> u], ord) :
                p \in ParentMaps(n), u \in 0..MaxWeight, ord \in Orders(n)} :
           n \in 1..MaxNodes}

\* A graph with one more edge (a back-edge or a second parent).
AddEdge(g, e, x) ==
    [g EXCEPT !.E = g.E \cup {e},
              !.w = [f \in g.E \cup {e} |-> IF f = e THEN x ELSE g.w[f]]]

\* A graph with one edge less (a second root).
RemoveEdge(g, e) ==
    [g EXCEPT !.E = g.E \ {e}, !.w = [f \in g.E \ {e} |-> g.w[f]]]

\* Graphs that break the rooted-tree invariant: a tree of uniform weight
\* with an edge added, removed, or moved to another source.
BrokenGraphs ==
    UNION {   {AddEdge(g, e, MaxWeight) : e \in {f \in (g.V \X g.V) \ g.E : f[1] # f[2]}}
         \cup {RemoveEdge(g, e) : e \in g.E}
         \cup UNION {{AddEdge(RemoveEdge(g, e), <<u, e[2]>>, g.w[e]) :
                          u \in g.V \ {e[1], e[2]}} : e \in g.E}
         : g \in UniformTrees}

\* The balanced binary tree of depth d with every edge of weight 1: node k
\* has the children 2k and 2k + 1.
BalancedTree(d, ord) ==
    LET n == 2^(d + 1) - 1
        E == {<<k \div 2, k>> : k \in 2..n}
    IN  [V |-> 1..n, E |-> E, w |-> [e \in E |-> 1], order |-> ord]

BalancedTrees ==
    UNION {{BalancedTree(d, ord) : ord \in Orders(2^(d + 1) - 1)} : d \in 0..MaxDepth}

InputGraphs == TreeGraphs \cup BrokenGraphs \cup BalancedTrees

(***************************************************************************)
(* run(), lines 80-96 of Graph_Analysis.py                                 *)
(***************************************************************************)
Init ==
    /\ graph \in InputGraphs
    /\ pc = "run_81"
    /\ err = "none"
    /\ root = NoNode
    /\ tips = <<>>
    /\ i = 0
    /\ max_path_length = 0
    /\ longest_shortest_path = None
    /\ visited = <<>>
    /\ dsp_i = 0
    /\ dsp_max_path_length = 0
    /\ dsp_longest_shortest_path = None
    /\ length = 0
    /\ path = None
    /\ returned = <<>>
    /\ ScriptsIdle

\* root = graph.getRoot()
run_getRoot ==
    /\ pc = "run_81"
    /\ LET r == getRoot(graph)
       IN  IF r.ok
           THEN /\ root' = r.node
                /\ pc' = "run_83"
                /\ err' = err
           ELSE /\ root' = root
                /\ pc' = "error"
                /\ err' = "InvalidGraphError"
    /\ UNCHANGED <<graph, tips, i, max_path_length, longest_shortest_path, visited,
                   dsp_i, dsp_max_path_length, dsp_longest_shortest_path,
                   length, path, returned>>
    /\ UNCHANGED scripts

\* tips = graph.getTips()
run_getTips ==
    /\ pc = "run_83"
    /\ tips' = getTips(graph)
    /\ pc' = "run_87"
    /\ UNCHANGED <<graph, err, root, i, max_path_length, longest_shortest_path, visited,
                   dsp_i, dsp_max_path_length, dsp_longest_shortest_path,
                   length, path, returned>>
    /\ UNCHANGED scripts

\* The element the loop `for tip in tips` hands out in its (k+1)-th iteration.
NextTip_stuck(ts, k) == ts[1]

NextTip(ts, k) == ts[k + 1]

\* Line 39: `if path_length > max_path_length`.
Improves_flipped(path_length, max) == path_length < max

Improves(path_length, max) == path_length > max

\* Line 52: `if path_length > max_path_length`.
dsp_Improves_always(path_length, max) == TRUE

dsp_Improves(path_length, max) == path_length > max

\* Variant of graph_diameter_begin that keeps max_path_length from the
\* previous call.
graph_diameter_begin_stale ==
    /\ pc = "run_87"
    /\ max_path_length' = max_path_length
    /\ longest_shortest_path' = None
    /\ i' = 0
    /\ visited' = <<>>
    /\ pc' = "gd_35"
    /\ UNCHANGED <<graph, err, root, tips,
                   dsp_i, dsp_max_path_length, dsp_longest_shortest_path,
                   length, path, returned>>
    /\ UNCHANGED scripts

\* graph_diameter, lines 33-34: the locals before the loop.
graph_diameter_begin ==
    /\ pc = "run_87"
    /\ max_path_length' = 0
    /\ longest_shortest_path' = None
    /\ i' = 0
    /\ visited' = <<>>
    /\ pc' = "gd_35"
    /\ UNCHANGED <<graph, err, root, tips,
                   dsp_i, dsp_max_path_length, dsp_longest_shortest_path,
                   length, path, returned>>
    /\ UNCHANGED scripts

\* Variant of graph_diameter_iter that detaches the tip it has measured
\* from the graph.
graph_diameter_iter_detach ==
    /\ pc = "gd_35"
    /\ i < Len(tips)
    /\ \E tip \in {NextTip(tips, i)} :
       \E shortest_path \in {getShortestPath(graph, root, tip)} :
       LET path_length == shortest_path.length
           E == {e \in graph.E : e[2] # tip}
       IN  /\ visited' = Append(visited, tip)
           /\ i' = i + 1
           /\ graph' = [graph EXCEPT !.E = E, !.w = [e \in E |-> graph.w[e]]]
           /\ IF shortest_path.none
              THEN /\ pc' = "error"
                   /\ err' = "AttributeError"
                   /\ UNCHANGED <<max_path_length, longest_shortest_path>>
              ELSE /\ UNCHANGED <<pc, err>>
                   /\ IF Improves(path_length, max_path_length)
                      THEN /\ max_path_length' = path_length
                           /\ longest_shortest_path' = shortest_path
                      ELSE UNCHANGED <<max_path_length, longest_shortest_path>>
    /\ UNCHANGED <<root, tips,
                   dsp_i, dsp_max_path_length, dsp_longest_shortest_path,
                   length, path, returned>>
    /\ UNCHANGED scripts

\* graph_diameter, lines 35-41: one iteration of `for tip in tips`.  For a
\* tip that cannot be reached from the root getShortestPath gives None, and
\* shortest_path.getLength() at line 38 raises AttributeError.
graph_diameter_iter ==
    /\ pc = "gd_35"
    /\ i < Len(tips)
    /\ \E tip \in {NextTip(tips, i)} :
       \E shortest_path \in {getShortestPath(graph, root, tip)} :
       LET path_length == shortest_path.length
       IN  /\ visited' = Append(visited, tip)
           /\ i' = i + 1
           /\ IF shortest_path.none
              THEN /\ pc' = "error"
                   /\ err' = "AttributeError"
                   /\ UNCHANGED <<max_path_length, longest_shortest_path>>
              ELSE /\ UNCHANGED <<pc, err>>
                   /\ IF Improves(path_length, max_path_length)
                      THEN /\ max_path_length' = path_length
                           /\ longest_shortest_path' = shortest_path
                      ELSE UNCHANGED <<max_path_length, longest_shortest_path>>
    /\ UNCHANGED <<graph, root, tips,
                   dsp_i, dsp_max_path_length, dsp_longest_shortest_path,
                   length, path, returned>>
    /\ UNCHANGED scripts

\* graph_diameter, line 42, and the assignment of line 87.
graph_diameter_return ==
    /\ pc = "gd_35"
    /\ i = Len(tips)
    /\ length' = max_path_length
    /\ path' = longest_shortest_path
    /\ returned' = Append(returned, [length |-> max_path_length,
                                      path |-> longest_shortest_path])
    /\ pc' = "run_94"
    /\ UNCHANGED <<graph, err, root, tips, i, max_path_length, longest_shortest_path,
                   visited, dsp_i, dsp_max_path_length, dsp_longest_shortest_path>>
    /\ UNCHANGED scripts

\* graph_diameter_dsp, lines 46-47.
graph_diameter_dsp_begin ==
    /\ pc = "run_94"
    /\ dsp_max_path_length' = 0
    /\ dsp_longest_shortest_path' = None
    /\ dsp_i' = 0
    /\ pc' = "dsp_48"
    /\ UNCHANGED <<graph, err, root, tips, i, max_path_length, longest_shortest_path,
                   visited, length, path, returned>>
    /\ UNCHANGED scripts

\* graph_diameter_dsp, lines 48-54: one iteration.  getPath returns null for
\* an unreachable tip, and getWeight() on it raises.
graph_diameter_dsp_iter ==
    /\ pc = "dsp_48"
    /\ dsp_i < Len(tips)
    /\ \E tip \in {NextTip(tips, dsp_i)} :
       \E shortest_path \in {DijkstraShortestPath(graph, root, tip)} :
       LET path_length == shortest_path.length
       IN  /\ dsp_i' = dsp_i + 1
           /\ IF shortest_path.none
              THEN /\ pc' = "error"
                   /\ err' = "AttributeError"
                   /\ UNCHANGED <<dsp_max_path_length, dsp_longest_shortest_path>>
              ELSE /\ UNCHANGED <<pc, err>>
                   /\ IF dsp_Improves(path_length, dsp_max_path_length)
                      THEN /\ dsp_max_path_length' = path_length
                           /\ dsp_longest_shortest_path' = shortest_path
                      ELSE UNCHANGED <<dsp_max_path_length, dsp_longest_shortest_path>>
    /\ UNCHANGED <<graph, root, tips, i, max_path_length, longest_shortest_path,
                   visited, length, path, returned>>
    /\ UNCHANGED scripts

\* graph_diameter_dsp, line 55, and the assignment of line 94
\* (`length, _ = ...` overwrites length and keeps path).
graph_diameter_dsp_return ==
    /\ pc = "dsp_48"
    /\ dsp_i = Len(tips)
    /\ length' = dsp_max_path_length
    /\ pc' = "done"
    /\ UNCHANGED <<graph, err, root, tips, i, max_path_length, longest_shortest_path,
                   visited, dsp_i, dsp_max_path_length, dsp_longest_shortest_path,
                   path, returned>>
    /\ UNCHANGED scripts

\* The analysis is run once more on the same, unmodified graph.
run_again ==
    /\ pc = "done"
    /\ Len(returned) < MaxCalls
    /\ pc' = "run_81"
    /\ UNCHANGED <<graph, err, root, tips, i, max_path_length, longest_shortest_path,
                   visited, dsp_i, dsp_max_path_length, dsp_longest_shortest_path,
                   length, path, returned>>
    /\ UNCHANGED scripts

Next ==
    \/ run_getRoot
    \/ run_getTips
    \/ graph_diameter_begin
    \/ graph_diameter_iter
    \/ graph_diameter_return
    \/ graph_diameter_dsp_begin
    \/ graph_diameter_dsp_iter
    \/ graph_diameter_dsp_return
    \/ run_again

Spec == Init /\ [][Next]_vars

\* The script is single-threaded and runs each call to completion.
FairSpec == Spec /\ WF_vars(Next)

\* graph_diameter(graph, root, tips) called on its own (line 30): graph, root
\* and tips are the caller's arguments. The function is handed any of the
\* input graphs or a graph with two roots above the same tips, any node of it
\* as root, and the tips of the graph.
\* Graphs with two nodes of in-degree 0 that reach the same tips: a tree of
\* uniform weight and one more node with an edge to a node below the root.
TwoRootGraphs ==
    UNION {{[V |-> g.V \cup {Len(g.order) + 1},
             E |-> g.E \cup {<<Len(g.order) + 1, v>>},
             w |-> [e \in g.E \cup {<<Len(g.order) + 1, v>>} |->
                       IF e \in g.E THEN g.w[e] ELSE MaxWeight],
             order |-> Append(g.order, Len(g.order) + 1)] : v \in g.V \ {1}} :
           g \in {h \in UniformTrees : Len(h.order) < MaxNodes}}

InitGraphDiameter ==
    /\ graph \in InputGraphs \cup TwoRootGraphs
    /\ root \in graph.V
    /\ tips = getTips(graph)
    /\ pc = "run_87"
    /\ err = "none"
    /\ i = 0
    /\ max_path_length = 0
    /\ longest_shortest_path = None
    /\ visited = <<>>
    /\ dsp_i = 0
    /\ dsp_max_path_length = 0
    /\ dsp_longest_shortest_path = None
    /\ length = 0
    /\ path = None
    /\ returned = <<>>
    /\ ScriptsIdle

NextGraphDiameter ==
    \/ graph_diameter_begin
    \/ graph_diameter_iter
    \/ graph_diameter_return

SpecGraphDiameter == InitGraphDiameter /\ [][NextGraphDiameter]_vars

TypeOK ==
    /\ pc \in {"run_81", "run_83", "run_87", "gd_35", "run_94", "dsp_48", "done", "error"}
    /\ err \in {"none", "InvalidGraphError", "AttributeError"}
    /\ i \in 0..Len(tips)
    /\ dsp_i \in 0..Len(tips)
    /\ Len(returned) <= MaxCalls

(***************************************************************************)
(* Reference notions the properties are stated with.  They are computed    *)
(* from the parent relation, not with getShortestPath.                     *)
(***************************************************************************)
RootSet(g) == {v \in g.V : InDegree(g, v) = 0}

TipSet(g) == {v \in g.V : OutDegree(g, v) = 0}

Successors(g, S) == {e[2] : e \in {f \in g.E : f[1] \in S}}

RECURSIVE Closure(_, _)
Closure(g, S) ==
    LET n == S \cup Successors(g, S)
    IN  IF n = S THEN S ELSE Closure(g, n)

Neighbours(g, S) == Successors(g, S) \cup {e[1] : e \in {f \in g.E : f[2] \in S}}

RECURSIVE UndirectedClosure(_, _)
UndirectedClosure(g, S) ==
    LET n == S \cup Neighbours(g, S)
    IN  IF n = S THEN S ELSE UndirectedClosure(g, n)

\* The rooted-tree invariant of the data model.
ValidTree(g) ==
    /\ Cardinality(RootSet(g)) = 1
    /\ \A v \in g.V \ RootSet(g) : InDegree(g, v) = 1
    /\ Closure(g, RootSet(g)) = g.V
    /\ \A e \in g.E : g.w[e] >= 0

HasCycle(g) == \E v \in g.V : v \in Closure(g, Successors(g, {v}))

DisconnectedFromRoot(g) ==
    /\ Cardinality(RootSet(g)) = 1
    /\ UndirectedClosure(g, RootSet(g)) # g.V

Parent(g, v) == CHOOSE u \in g.V : <<u, v>> \in g.E

\* In a valid tree: the node sequence from the root down to v, and the sum
\* of the edge weights along it.
RECURSIVE RootPath(_, _)
RootPath(g, v) ==
    IF InDegree(g, v) = 0 THEN <<v>> ELSE Append(RootPath(g, Parent(g, v)), v)

RECURSIVE RootDistance(_, _)
RootDistance(g, v) ==
    IF InDegree(g, v) = 0 THEN 0
    ELSE RootDistance(g, Parent(g, v)) + g.w[<<Parent(g, v), v>>]

SetMax(S) == CHOOSE x \in S : \A y \in S : y <= x

MaxTipDistance(g) == SetMax({RootDistance(g, t) : t \in TipSet(g)})

\* The tips at maximal distance from the root, in enumeration order.
FarthestTips(g) ==
    SelectSeq(getTips(g), LAMBDA t : RootDistance(g, t) = MaxTipDistance(g))

FollowsEdges(g, ns) == \A k \in 1..(Len(ns) - 1) : <<ns[k], ns[k + 1]>> \in g.E

NoDuplicates(s) == \A j, k \in DOMAIN s : s[j] = s[k] => j = k

\* The number of edges between the root and v in a valid tree.
Depth(g, v) == Len(RootPath(g, v)) - 1

\* A root whose children are all leaves, and at least one child.
StarTree(g) ==
    /\ ValidTree(g)
    /\ g.E # {}
    /\ \A e \in g.E : InDegree(g, e[1]) = 0 /\ OutDegree(g, e[2]) = 0

\* A balanced binary tree of depth d with uniform edge weight 1.
BalancedBinary(g, d) ==
    /\ ValidTree(g)
    /\ \A v \in g.V : OutDegree(g, v) \in {0, 2}
    /\ \A t \in TipSet(g) : Depth(g, t) = d
    /\ \A e \in g.E : g.w[e] = 1

\* graph_diameter has just returned into run(): length and path hold its result.
Returned == pc = "run_94"

(***************************************************************************)
(* Tracing/Path_Player.py                                                  *)
(*                                                                         *)
(* play_selected_paths runs in the script's thread; the mouse listener     *)
(* runs in the event thread and may act between any two statements of the  *)
(* script. pp.k counts the paths taken from the list, pp.index the nodes   *)
(* of the current path that were shown; n_select, n_setPosition and n_zoom *)
(* count the calls that were made, and pp.at holds these counts and the    *)
(* script's position at the moment the abort flag was set.                 *)
(***************************************************************************)

\* The graph analysis is not running.
GraphIdle ==
    /\ graph = [V |-> {1}, E |-> {}, w |-> <<>>, order |-> <<1>>]
    /\ pc = "idle"
    /\ err = "none"
    /\ root = NoNode
    /\ tips = <<>>
    /\ i = 0
    /\ max_path_length = 0
    /\ longest_shortest_path = None
    /\ visited = <<>>
    /\ dsp_i = 0
    /\ dsp_max_path_length = 0
    /\ dsp_longest_shortest_path = None
    /\ length = 0
    /\ path = None
    /\ returned = <<>>

\* The lists of paths to play: each path is given by its number of nodes.
PathLists == UNION {[1..n -> 1..MaxPathSize] : n \in 0..MaxPaths}

NoClick == [pc |-> "none", n_select |-> 0, n_setPosition |-> 0, n_zoom |-> 0]

InitPlayer ==
    /\ GraphIdle
    /\ pp \in {[pc |-> "ps_103", paths |-> ps, imp |-> im, filter_selected |-> f,
                 listener |-> FALSE, added |-> FALSE, abort |-> FALSE,
                 k |-> 0, index |-> 0, error |-> FALSE,
                 n_select |-> 0, n_setPosition |-> 0, n_zoom |-> 0, at |-> NoClick] :
                ps \in PathLists, im \in BOOLEAN, f \in BOOLEAN}
    /\ fmi = Idle
    /\ roi = Idle
    /\ opt = Idle
    /\ sp = Idle
    /\ cl = Idle
    /\ st = Idle
    /\ ctd = Idle
    /\ sm = Idle

\* AbortMouseListener.mouseClicked / mousePressed: self.abort = True. The
\* listener receives events while it is registered with the canvas. (An
\* event that finds the flag set leaves the state as it is.)
SetAbort ==
    /\ pp.pc # "idle"
    /\ pp.listener
    /\ ~pp.abort
    /\ pp' = [pp EXCEPT !.abort = TRUE,
                        !.at = [pc |-> pp.pc, n_select |-> pp.n_select,
                                n_setPosition |-> pp.n_setPosition,
                                n_zoom |-> pp.n_zoom]]
    /\ UNCHANGED <<gvars, fmi, roi, opt, sp, cl, st, ctd, sm>>

mouseClicked == SetAbort

mousePressed == SetAbort

\* paths, imp = get_selected_paths_and_image(); if not paths or not imp: return
ps_get ==
    /\ pp.pc = "ps_103"
    /\ pp' = [pp EXCEPT !.pc = IF pp.paths = <<>> \/ ~pp.imp THEN "returned" ELSE "ps_108"]
    /\ UNCHANGED <<gvars, fmi, roi, opt, sp, cl, st, ctd, sm>>

\* pauseTracing(True); setVisibilityFilter("selected", True); ("z-slices", True)
ps_setVisibilityFilter ==
    /\ pp.pc = "ps_108"
    /\ pp' = [pp EXCEPT !.pc = "ps_115", !.filter_selected = TRUE]
    /\ UNCHANGED <<gvars, fmi, roi, opt, sp, cl, st, ctd, sm>>

\* listener = AbortMouseListener(); imp.getCanvas().addMouseListener(listener),
\* before the try statement: when getCanvas() gives None the call raises
\* AttributeError, which leaves play_selected_paths with no listener added.
ps_addMouseListener ==
    /\ pp.pc = "ps_115"
    /\ \E getCanvas \in BOOLEAN :
           pp' = IF getCanvas
                 THEN [pp EXCEPT !.pc = "ps_121", !.abort = FALSE, !.listener = TRUE,
                                 !.added = TRUE]
                 ELSE [pp EXCEPT !.pc = "raised", !.abort = FALSE]
    /\ UNCHANGED <<gvars, fmi, roi, opt, sp, cl, st, ctd, sm>>

\* imp.getWindow().toFront(), before the try statement: an exception raised
\* here leaves play_selected_paths at once.
ps_toFront ==
    /\ pp.pc = "ps_121"
    /\ \E raises \in BOOLEAN :
           pp' = [pp EXCEPT !.pc = IF raises THEN "raised" ELSE "ps_125"]
    /\ UNCHANGED <<gvars, fmi, roi, opt, sp, cl, st, ctd, sm>>

\* if listener.abort: break  (line 126)
LoopAborted_never(abort) == FALSE

LoopAborted(abort) == abort

\* for path in paths: if listener.abort: break. The loop ends when the list
\* is exhausted or the flag is found set; otherwise the next path is taken.
ps_for ==
    /\ pp.pc = "ps_125"
    /\ pp' = IF pp.k = Len(pp.paths) \/ LoopAborted(pp.abort)
             THEN [pp EXCEPT !.pc = "ps_137"]
             ELSE [pp EXCEPT !.pc = "ps_129", !.k = pp.k + 1]
    /\ UNCHANGED <<gvars, fmi, roi, opt, sp, cl, st, ctd, sm>>

\* snt.getUI().getPathManager().select(path), then play_path is entered.
ps_select ==
    /\ pp.pc = "ps_129"
    /\ \E raises \in BOOLEAN :
           pp' = IF raises
                 THEN [pp EXCEPT !.pc = "ps_133"]
                 ELSE [pp EXCEPT !.pc = "pp_71", !.index = 0, !.n_select = pp.n_select + 1]
    /\ UNCHANGED <<gvars, fmi, roi, opt, sp, cl, st, ctd, sm>>

\* play_path: for index in range(n_nodes): if abort_listener.abort: break.
\* play_path returns when all nodes were shown or the flag is found set.
pp_for ==
    /\ pp.pc = "pp_71"
    /\ pp' = IF pp.index = pp.paths[pp.k] \/ pp.abort
             THEN [pp EXCEPT !.pc = "ps_125"]
             ELSE [pp EXCEPT !.pc = "pp_91"]
    /\ UNCHANGED <<gvars, fmi, roi, opt, sp, cl, st, ctd, sm>>

\* play_path: label, node position, imp.setPosition(channel, z, frame)
pp_setPosition ==
    /\ pp.pc = "pp_91"
    /\ \E raises \in BOOLEAN :
           pp' = IF raises
                 THEN [pp EXCEPT !.pc = "ps_133"]
                 ELSE [pp EXCEPT !.pc = "pp_94", !.n_setPosition = pp.n_setPosition + 1]
    /\ UNCHANGED <<gvars, fmi, roi, opt, sp, cl, st, ctd, sm>>

\* play_path: Zoom.set(imp, ZOOM_LEVEL, x, y), then the next index.
pp_Zoom ==
    /\ pp.pc = "pp_94"
    /\ \E raises \in BOOLEAN :
           pp' = IF raises
                 THEN [pp EXCEPT !.pc = "ps_133"]
                 ELSE [pp EXCEPT !.pc = "pp_71", !.index = pp.index + 1,
                                 !.n_zoom = pp.n_zoom + 1]
    /\ UNCHANGED <<gvars, fmi, roi, opt, sp, cl, st, ctd, sm>>

\* except Exception as e: snt.getUI().error(...)
ps_except ==
    /\ pp.pc = "ps_133"
    /\ pp' = [pp EXCEPT !.pc = "ps_137", !.error = TRUE]
    /\ UNCHANGED <<gvars, fmi, roi, opt, sp, cl, st, ctd, sm>>

\* finally: pauseTracing(True); setVisibilityFilter("selected", False);
\* if imp and imp.getCanvas(): imp.getCanvas().removeMouseListener(listener).
\* imp is the image that passed the test of line 104. getCanvas() is called
\* twice: when the call of line 141 gives None (the image window is gone) the
\* listener is not removed; when it gives a canvas and the call of line 142
\* gives None, line 142 raises AttributeError inside the finally clause and
\* play_selected_paths is left by the exception, the listener still registered.
ps_finally ==
    /\ pp.pc = "ps_137"
    /\ \E getCanvas_141 \in BOOLEAN, getCanvas_142 \in BOOLEAN :
           pp' = IF ~(pp.imp /\ getCanvas_141)
                 THEN [pp EXCEPT !.pc = "returned", !.filter_selected = FALSE]
                 ELSE IF getCanvas_142
                 THEN [pp EXCEPT !.pc = "returned", !.filter_selected = FALSE,
                                 !.listener = FALSE]
                 ELSE [pp EXCEPT !.pc = "raised", !.filter_selected = FALSE]
    /\ UNCHANGED <<gvars, fmi, roi, opt, sp, cl, st, ctd, sm>>

\* The statements of the script's thread.
play_selected_paths ==
    \/ ps_get
    \/ ps_setVisibilityFilter
    \/ ps_addMouseListener
    \/ ps_toFront
    \/ ps_for
    \/ ps_select
    \/ pp_for
    \/ pp_setPosition
    \/ pp_Zoom
    \/ ps_except
    \/ ps_finally

NextPlayer ==
    \/ mouseClicked
    \/ mousePressed
    \/ ps_get
    \/ ps_setVisibilityFilter
    \/ ps_addMouseListener
    \/ ps_toFront
    \/ ps_for
    \/ ps_select
    \/ pp_for
    \/ pp_setPosition
    \/ pp_Zoom
    \/ ps_except
    \/ ps_finally

SpecPlayer == InitPlayer /\ [][NextPlayer]_vars

\* The script's thread keeps running; nothing obliges the user to click.
FairPlayer == SpecPlayer /\ WF_vars(play_selected_paths)

\* play_selected_paths has been left, by a return or by an exception.
PlayerLeft == pp.pc \in {"returned", "raised"}

\* The calls made since the abort flag was set.
SelectsSinceAbort == pp.n_select - pp.at.n_select

PositionsSinceAbort == pp.n_setPosition - pp.at.n_setPosition

ZoomsSinceAbort == pp.n_zoom - pp.at.n_zoom

(***************************************************************************)
(* Batch/Filter_Multiple_Images.py                                         *)
(*                                                                         *)
(* An image is given by what run() reads from it: numDimensions(),         *)
(* getChannels(), whether axis 2 is the Z axis, and averageScale(0..2).    *)
(* Spacings are small naturals chosen so that their mean is a natural.     *)
(* fmi.entered holds the values the user entered, fmi.scales the global    *)
(* variable of the script, fmi.Tubeness the arguments of every call of     *)
(* Tubeness(scales, spacing, ...).                                         *)
(***************************************************************************)

Image(d, c, z, av) == [num_dimensions |-> d, channels |-> c, z_axis |-> z, averageScale |-> av]

Images ==
         {Image(2, 1, FALSE, <<x, x, x>>) : x \in 1..MaxSpacing}
    \cup {Image(3, 1, TRUE, <<x, x, x>>) : x \in 1..MaxSpacing}
    \cup {Image(3, 1, TRUE, <<x, x, 4 * x>>) : x \in 1..MaxSpacing}
    \cup {Image(3, 1, FALSE, <<1, 1, 1>>), Image(4, 1, FALSE, <<1, 1, 1>>),
          Image(2, 2, FALSE, <<1, 1, 1>>)}

RECURSIVE Sum(_)
Sum(q) == IF q = <<>> THEN 0 ELSE Head(q) + Sum(Tail(q))

\* spacing = [x_spacing, y_spacing], and z_spacing if the image is 3D with a Z axis
Spacing(img) ==
    IF img.num_dimensions = 3 /\ img.z_axis
    THEN img.averageScale
    ELSE SubSeq(img.averageScale, 1, 2)

\* avgsep = sum(spacing) / len(spacing)
AvgSep(img) == Sum(Spacing(img)) \div Len(Spacing(img))

\* [s * avgsep for s in scales]
Scaled(scales, avgsep) == [j \in 1..Len(scales) |-> scales[j] * avgsep]

InitFilter ==
    /\ GraphIdle
    /\ fmi \in {[pc |-> "run_50", entered |-> en, scales |-> <<>>, files |-> fs, f |-> 0,
                  processed |-> 0, skipped |-> 0, Tubeness |-> <<>>] :
                 en \in UNION {[1..n -> 0..MaxScale] : n \in 1..MaxScales},
                 fs \in UNION {[1..n -> Images] : n \in 0..MaxFiles}}
    /\ pp = Idle
    /\ roi = Idle
    /\ opt = Idle
    /\ sp = Idle
    /\ cl = Idle
    /\ st = Idle
    /\ ctd = Idle
    /\ sm = Idle

\* global scales; scales = [float(s) ...]; return unless all are > 0; files =
\* get_image_files(...); return if there is none.
fmi_run_begin ==
    /\ fmi.pc = "run_50"
    /\ fmi' = [fmi EXCEPT !.scales = fmi.entered,
                          !.pc = IF (\E j \in DOMAIN fmi.entered : fmi.entered[j] <= 0)
                                    \/ fmi.files = <<>>
                                 THEN "done" ELSE "run_65"]
    /\ UNCHANGED <<gvars, pp, roi, opt, sp, cl, st, ctd, sm>>

\* scales = [s * avgsep for s in scales]  (line 91)
NextScales(entered, scales, avgsep) == Scaled(scales, avgsep)

\* for f in files: one image is skipped, or filtered with the scales that
\* line 91 has just assigned to the global variable.
fmi_run_for ==
    /\ fmi.pc = "run_65"
    /\ fmi.f < Len(fmi.files)
    /\ LET input_image == fmi.files[fmi.f + 1]
       IN  IF input_image.num_dimensions > 3 \/ input_image.channels > 1
           THEN fmi' = [fmi EXCEPT !.f = fmi.f + 1, !.skipped = fmi.skipped + 1]
           ELSE \E scales \in {NextScales(fmi.entered, fmi.scales, AvgSep(input_image))} :
                    fmi' = [fmi EXCEPT !.f = fmi.f + 1,
                                       !.scales = scales,
                                       !.Tubeness = Append(fmi.Tubeness,
                                                       [f |-> fmi.f + 1, scales |-> scales,
                                                        spacing |-> Spacing(input_image)]),
                                       !.processed = fmi.processed + 1]
    /\ UNCHANGED <<gvars, pp, roi, opt, sp, cl, st, ctd, sm>>

\* print('Done. ...')
fmi_run_done ==
    /\ fmi.pc = "run_65"
    /\ fmi.f = Len(fmi.files)
    /\ fmi' = [fmi EXCEPT !.pc = "done"]
    /\ UNCHANGED <<gvars, pp, roi, opt, sp, cl, st, ctd, sm>>

NextFilter ==
    \/ fmi_run_begin
    \/ fmi_run_for
    \/ fmi_run_done

SpecFilter == InitFilter /\ [][NextFilter]_vars

(***************************************************************************)
(* Time-lapses/Apply_3D_Drift_Corrections.py: shift_roi                    *)
(*                                                                         *)
(* A ROI is None or its bounds, a rectangle of integers. The shift dr has  *)
(* floating-point coordinates: it is held in half pixels (dr.x2 = 2 dr.x), *)
(* so that int(dr.x), which truncates towards zero, differs from dr.x.     *)
(***************************************************************************)

NoRoi == [none |-> TRUE]

Roi(x, y, width, height) == [none |-> FALSE, x |-> x, y |-> y, width |-> width, height |-> height]

\* int(v) of the float v = v2 / 2
int(v2) == IF v2 >= 0 THEN v2 \div 2 ELSE -((-v2) \div 2)

\* The x shift (lines 194-199) and the y shift (lines 201-206): the new
\* coordinate of a side that starts at r and has the given extent, in an
\* image of the given size.
shift_axis_unclamped(r, d2, extent, size) == r + int(d2)

shift_axis(r, d2, extent, size) ==
    IF 2 * r + d2 < 0 THEN 0
    ELSE IF 2 * r + d2 + 2 * extent > 2 * size THEN size - extent
    ELSE r + int(d2)

shift_roi(imp, r, dr) ==
    IF r.none THEN r
    ELSE Roi(shift_axis(r.x, dr.x2, r.width, imp.width),
             shift_axis(r.y, dr.y2, r.height, imp.height),
             r.width, r.height)

\* ROIs inside the image, and ROIs that reach over its border.
Rois ==
    {NoRoi} \cup {Roi(x, y, w, h) : x \in -1..MaxImage, y \in -1..MaxImage,
                                    w \in 1..MaxImage, h \in 1..MaxImage}

InitRoi ==
    /\ GraphIdle
    /\ roi \in {[pc |-> "call", imp |-> [width |-> W, height |-> H], roi |-> r,
                  dr |-> [x2 |-> dx, y2 |-> dy], shifted_roi |-> NoRoi] :
                 W \in 1..MaxImage, H \in 1..MaxImage, r \in Rois,
                 dx \in (-2 * MaxShift)..(2 * MaxShift),
                 dy \in (-2 * MaxShift)..(2 * MaxShift)}
    /\ pp = Idle
    /\ fmi = Idle
    /\ opt = Idle
    /\ sp = Idle
    /\ cl = Idle
    /\ st = Idle
    /\ ctd = Idle
    /\ sm = Idle

roi_shift_roi ==
    /\ roi.pc = "call"
    /\ roi' = [roi EXCEPT !.pc = "return",
                          !.shifted_roi = shift_roi(roi.imp, roi.roi, roi.dr)]
    /\ UNCHANGED <<gvars, pp, fmi, opt, sp, cl, st, ctd, sm>>

NextRoi == roi_shift_roi

SpecRoi == InitRoi /\ [][NextRoi]_vars

\* The rectangle lies inside the image.
Within(r, imp) ==
    /\ 0 <= r.x
    /\ r.x + r.width <= imp.width
    /\ 0 <= r.y
    /\ r.y + r.height <= imp.height

\* The side went to new: the whole pixels of the shift, or less when the
\* border of the image on the side of the shift was reached.
AsFarAsBorderAllows(r, d2, extent, size, new) ==
    \/ new = r + int(d2)
    \/ d2 < 0 /\ new = 0 /\ r + int(d2) <= 0
    \/ d2 > 0 /\ new = size - extent /\ r + int(d2) >= size - extent

(***************************************************************************)
(* Time-lapses/Apply_3D_Drift_Corrections.py: get_options_without_prompt   *)
(*                                                                         *)
(* opt.background is the script parameter (-1 or an intensity), opt.max    *)
(* the largest pixel value of the image, opt.options the dictionary that   *)
(* is returned.                                                            *)
(***************************************************************************)

\* max = imp.getStatistics(MIN_MAX).max if background < 0 else background
Cutoff(background, imgmax) == IF background < 0 THEN imgmax ELSE background

InitOptions ==
    /\ GraphIdle
    /\ opt \in {[pc |-> "call", background |-> b, max |-> m, options |-> <<>>] :
                 b \in -1..MaxIntensity, m \in 0..MaxIntensity}
    /\ pp = Idle
    /\ fmi = Idle
    /\ roi = Idle
    /\ sp = Idle
    /\ cl = Idle
    /\ st = Idle
    /\ ctd = Idle
    /\ sm = Idle

get_options_without_prompt ==
    /\ opt.pc = "call"
    /\ opt' = [opt EXCEPT !.pc = "return",
                          !.options = [background |-> Cutoff(opt.background, opt.max)]]
    /\ UNCHANGED <<gvars, pp, fmi, roi, sp, cl, st, ctd, sm>>

NextOptions == get_options_without_prompt

SpecOptions == InitOptions /\ [][NextOptions]_vars

(***************************************************************************)
(* Time-lapses/Apply_3D_Drift_Corrections.py: shift_paths                  *)
(*                                                                         *)
(* A path is its frame and its nodes, each node a point <<x, y, z>> in     *)
(* physical units; sp.moves counts the calls of moveNode for every node.   *)
(* A shift is a vector in pixels, one per frame. The calibration of the    *)
(* paths holds the pixel sizes and the origin of ImageJ's Calibration,     *)
(* whose getX(v) is (v - xOrigin) * pixelWidth.                            *)
(***************************************************************************)

Calibrations ==
    {[pixelWidth |-> q, pixelHeight |-> q, pixelDepth |-> q + 1,
      xOrigin |-> 0, yOrigin |-> 0, zOrigin |-> 0] : q \in 1..MaxSpacing}

\* cal.getX(shift.getX()), cal.getY(shift.getY()), cal.getZ(shift.getZ())
CalibratedShift(cal, shift) ==
    <<(shift[1] - cal.xOrigin) * cal.pixelWidth,
      (shift[2] - cal.yOrigin) * cal.pixelHeight,
      (shift[3] - cal.zOrigin) * cal.pixelDepth>>

\* The nodes of a traced path before the correction.
StartNodes(n) == [j \in 1..n |-> <<j, 2 * j, 0>>]

\* The paths of the tracing: frames in and out of the range of the shifts.
ShiftedPaths ==
    {[frame |-> f, nodes |-> StartNodes(n)] : f \in 0..(MaxFrames + 1), n \in {1, MaxPathSize}}

\* The corrections, one per frame, different in every axis and frame.
Shifts == {[f \in 1..n |-> <<d * f, -d, d + f>>] : n \in 0..MaxFrames, d \in -MaxShift..MaxShift}

InitShiftPaths ==
    /\ GraphIdle
    /\ sp \in {[pc |-> "sp_762", paths |-> ps, inverted_shifts |-> sh, cal |-> c,
                 idx |-> 0, k |-> 0,
                 moves |-> [a \in DOMAIN ps |-> [j \in DOMAIN ps[a].nodes |-> 0]]] :
                ps \in UNION {[1..n -> ShiftedPaths] : n \in 0..MaxPaths},
                sh \in Shifts, c \in Calibrations}
    /\ pp = Idle
    /\ fmi = Idle
    /\ roi = Idle
    /\ opt = Idle
    /\ cl = Idle
    /\ st = Idle
    /\ ctd = Idle
    /\ sm = Idle

\* if path.getFrame() == idx+1  (idx counts from 0)
FrameMatches_idx(frame, idx) == frame = idx

FrameMatches(frame, idx) == frame = idx + 1

\* path.moveNode(node_idx, PointInImage(node.x + xshift_cal, ...)) for every node
MoveNodes(nodes, by) ==
    [j \in DOMAIN nodes |-> <<nodes[j][1] + by[1], nodes[j][2] + by[2], nodes[j][3] + by[3]>>]

\* for idx, shift in enumerate(inverted_shifts): for path in paths: one path
\* is looked at, and all its nodes are moved if it is in the frame of shift.
sp_for_path ==
    /\ sp.pc = "sp_762"
    /\ sp.idx < Len(sp.inverted_shifts)
    /\ sp.k < Len(sp.paths)
    /\ LET shift == sp.inverted_shifts[sp.idx + 1]
           a == sp.k + 1
       IN  IF FrameMatches(sp.paths[a].frame, sp.idx)
           THEN sp' = [sp EXCEPT !.k = a,
                                !.paths[a].nodes = MoveNodes(sp.paths[a].nodes,
                                                       CalibratedShift(sp.cal, shift)),
                                !.moves[a] = [j \in DOMAIN sp.moves[a] |-> sp.moves[a][j] + 1]]
           ELSE sp' = [sp EXCEPT !.k = a]
    /\ UNCHANGED <<gvars, pp, fmi, roi, opt, cl, st, ctd, sm>>

\* The inner loop is exhausted: the next shift.
sp_for_shift ==
    /\ sp.pc = "sp_762"
    /\ sp.idx < Len(sp.inverted_shifts)
    /\ sp.k = Len(sp.paths)
    /\ sp' = [sp EXCEPT !.idx = sp.idx + 1, !.k = 0]
    /\ UNCHANGED <<gvars, pp, fmi, roi, opt, cl, st, ctd, sm>>

\* The outer loop is exhausted: shift_paths returns.
sp_return ==
    /\ sp.pc = "sp_762"
    /\ sp.idx = Len(sp.inverted_shifts)
    /\ sp' = [sp EXCEPT !.pc = "return"]
    /\ UNCHANGED <<gvars, pp, fmi, roi, opt, cl, st, ctd, sm>>

NextShiftPaths ==
    \/ sp_for_path
    \/ sp_for_shift
    \/ sp_return

SpecShiftPaths == InitShiftPaths /\ [][NextShiftPaths]_vars

(***************************************************************************)
(* Skeletons_and_ROIs/Classify_Particles_Using_Skeleton.py                 *)
(*                                                                         *)
(* Points lie on a grid. A distance is the square root of a natural: it is *)
(* held as that natural (sq), and comparisons of distances are comparisons *)
(* of the squares. j_dist and ep_dist start as sys.maxint, which is held   *)
(* as a mark of its own and exceeds every distance and cutoff.             *)
(***************************************************************************)

Points == {<<x, y>> : x \in 0..MaxCoord, y \in 0..1}

\* Lists of up to MaxFeatures distinct points, as the skeleton analysis
\* reports its end-points and junction voxels.
FeatureLists ==
    UNION {{q \in [1..n -> Points] :
               \A a, b \in 1..n : a < b => (q[a][1] < q[b][1] \/
                                            (q[a][1] = q[b][1] /\ q[a][2] < q[b][2]))} :
           n \in 0..MaxFeatures}

maxint == [maxint |-> TRUE, sq |-> 0]

\* distance(x1, y1, x2, y2), squared
distance(p, q) ==
    [maxint |-> FALSE, sq |-> (q[1] - p[1]) * (q[1] - p[1]) + (q[2] - p[2]) * (q[2] - p[2])]

\* dist <= cutoff_dist  (lines 156, 162)
WithinCutoff_strict(dist, cutoff_dist) == dist.sq < cutoff_dist * cutoff_dist

WithinCutoff(dist, cutoff_dist) == dist.sq <= cutoff_dist * cutoff_dist

\* a < b for two distances, either of which may be sys.maxint
Less(a, b) == ~a.maxint /\ (b.maxint \/ a.sq < b.sq)

\* j_dist > cutoff_dist  (line 171)
Exceeds(dist, cutoff_dist) == dist.maxint \/ dist.sq > cutoff_dist * cutoff_dist

\* abs(j_dist - ep_dist) <= pixel_size / 2: for the roots of a and b this is
\* 4a + 4b - px^2 <= 8 sqrt(ab).
WithinHalfPixel(a, b, px) ==
    /\ ~a.maxint
    /\ ~b.maxint
    /\ LET L == 4 * a.sq + 4 * b.sq - px * px
       IN  L <= 0 \/ L * L <= 64 * a.sq * b.sq

\* pixel_size(imp): min(cal.pixelWidth, cal.pixelHeight)
pixel_size(cal) == IF cal.pixelWidth <= cal.pixelHeight THEN cal.pixelWidth ELSE cal.pixelHeight

\* The loops of lines 154-157 and 160-163: the closest feature within the
\* cutoff, starting from best.
RECURSIVE Closest_feature(_, _, _, _)
Closest_feature(features, c, cutoff_dist, best) ==
    IF features = <<>> THEN best
    ELSE LET dist == distance(c, Head(features))
         IN  Closest_feature(Tail(features), c, cutoff_dist,
                             IF WithinCutoff(dist, cutoff_dist) /\ Less(dist, best)
                             THEN dist ELSE best)

\* roi_name (lines 166-188)
roi_name(j_dist, ep_dist, cutoff_dist, px) ==
    IF Exceeds(j_dist, cutoff_dist) /\ Exceeds(ep_dist, cutoff_dist) THEN "Unc"
    ELSE IF WithinHalfPixel(j_dist, ep_dist, px) THEN "J+T"
    ELSE IF Less(ep_dist, j_dist) THEN "Tip"
    ELSE IF Less(j_dist, ep_dist) THEN "Junction"
    ELSE "Unknown"

InitClassify ==
    /\ GraphIdle
    /\ cl \in {[pc |-> "run_149", junction_voxels |-> jv, end_points |-> ep,
                 centroids |-> cs, cutoff_dist |-> cd,
                 cal |-> [pixelWidth |-> pw, pixelHeight |-> pw + 1],
                 i |-> 0, overlay |-> <<>>] :
                jv \in FeatureLists, ep \in FeatureLists,
                cs \in UNION {[1..n -> {q \in Points : q[2] = 0}] : n \in 1..MaxParticles},
                cd \in 1..MaxCutoff, pw \in 1..MaxSpacing}
    /\ ~(cl.junction_voxels = <<>> /\ cl.end_points = <<>>)
    /\ pp = Idle
    /\ fmi = Idle
    /\ roi = Idle
    /\ opt = Idle
    /\ sp = Idle
    /\ st = Idle
    /\ ctd = Idle
    /\ sm = Idle

\* for i in range(n_particles): one particle is tagged and added to the overlay.
cl_run_for ==
    /\ cl.pc = "run_149"
    /\ cl.i < Len(cl.centroids)
    /\ LET c == cl.centroids[cl.i + 1]
           j_dist == Closest_feature(cl.junction_voxels, c, cl.cutoff_dist, maxint)
           ep_dist == Closest_feature(cl.end_points, c, cl.cutoff_dist, maxint)
       IN  cl' = [cl EXCEPT !.i = cl.i + 1,
                           !.overlay = Append(cl.overlay,
                                           roi_name(j_dist, ep_dist, cl.cutoff_dist,
                                                    pixel_size(cl.cal)))]
    /\ UNCHANGED <<gvars, pp, fmi, roi, opt, sp, st, ctd, sm>>

\* The loop is exhausted.
cl_run_done ==
    /\ cl.pc = "run_149"
    /\ cl.i = Len(cl.centroids)
    /\ cl' = [cl EXCEPT !.pc = "done"]
    /\ UNCHANGED <<gvars, pp, fmi, roi, opt, sp, st, ctd, sm>>

NextClassify ==
    \/ cl_run_for
    \/ cl_run_done

SpecClassify == InitClassify /\ [][NextClassify]_vars

\* The squared distances from a point to the features that lie within the
\* cutoff, and the least of a set of them.
InRangeOf(c, features, cutoff_dist) ==
    {n \in {distance(c, features[k]).sq : k \in DOMAIN features} : n <= cutoff_dist * cutoff_dist}

SetMin(S) == CHOOSE x \in S : \A y \in S : x <= y

\* The roots of a and b differ by at most half of px.
DifferByAtMostHalf(a, b, px) ==
    LET L == 4 * a + 4 * b - px * px IN L <= 0 \/ L * L <= 64 * a * b

(***************************************************************************)
(* Tracing/Scripted_Tracing_Demo_(Interactive).py                          *)
(*                                                                         *)
(* The plugin is given by what the script reads and sets: whether there is *)
(* a UI, its state, the A* flag, whether there is an image, and the paths  *)
(* of the path-and-fill manager (pafm), a set of path identifiers. state,  *)
(* astar_enabled, tree and deg_angle are the locals of run(); st.created   *)
(* holds the paths autoTrace has made and st.initial the status of the     *)
(* plugin when the script started to use it.                               *)
(***************************************************************************)

\* range(10, 360, 10)
RangeStart == 10

RangeStop == 360

RangeStep == 10

UIStates == {"READY", "TRACING_PAUSED", "SNT_PAUSED", "EDITING"}

\* snt.getUI().isReady()
isReady(ui_state) == ui_state \in {"READY", "TRACING_PAUSED", "SNT_PAUSED"}

InitDemo ==
    /\ GraphIdle
    /\ st \in {[pc |-> "run_25", ui |-> u, ui_state |-> IF u THEN us ELSE "READY",
                 astar |-> a, imp |-> u /\ im, pafm |-> 1..n, next_path |-> n + 1,
                 state |-> "READY", astar_enabled |-> FALSE, tree |-> <<>>,
                 deg_angle |-> 0, created |-> {},
                 initial |-> [ui_state |-> IF u THEN us ELSE "READY", astar |-> a]] :
                u \in BOOLEAN, us \in UIStates, a \in BOOLEAN, im \in BOOLEAN,
                n \in 0..MaxPaths}
    /\ pp = Idle
    /\ fmi = Idle
    /\ roi = Idle
    /\ opt = Idle
    /\ sp = Idle
    /\ cl = Idle
    /\ ctd = Idle
    /\ sm = Idle

\* Lines 25-30: without a UI the demo image is opened and the GUI started;
\* with a UI that is not ready the script shows a dialog and returns.
st_run_begin ==
    /\ st.pc = "run_25"
    /\ st' = IF ~st.ui
             THEN [st EXCEPT !.pc = "run_41", !.ui = TRUE, !.imp = TRUE, !.ui_state = "READY",
                             !.initial = [ui_state |-> "READY", astar |-> st.astar]]
             ELSE IF ~isReady(st.ui_state)
             THEN [st EXCEPT !.pc = "returned"]
             ELSE [st EXCEPT !.pc = "run_41"]
    /\ UNCHANGED <<gvars, pp, fmi, roi, opt, sp, cl, ctd, sm>>

\* state = plugin.getUI().getState() if snt.getUI() else SNTUI.READY  (line 47)
SavedState_ready(ui, ui_state) == "READY"

SavedState(ui, ui_state) == IF ui THEN ui_state ELSE "READY"

\* Lines 41-49: state is saved, the UI state set to READY, the A* flag saved.
st_run_save ==
    /\ st.pc = "run_41"
    /\ st' = [st EXCEPT !.pc = "run_53",
                        !.state = SavedState(st.ui, st.ui_state),
                        !.ui_state = "READY",
                        !.astar_enabled = st.astar]
    /\ UNCHANGED <<gvars, pp, fmi, roi, opt, sp, cl, ctd, sm>>

\* Lines 53-82: an image is provided if there is none (display canvases
\* rebuilt from the paths, or the demo image and snt.initialize), A* is
\* disabled and the Tree is created.
st_run_enableAstar ==
    /\ st.pc = "run_53"
    /\ st' = [st EXCEPT !.pc = "run_94", !.imp = TRUE, !.astar = FALSE, !.tree = <<>>]
    /\ UNCHANGED <<gvars, pp, fmi, roi, opt, sp, cl, ctd, sm>>

\* plugin.autoTrace(...): a new path, held by the path-and-fill manager.
autoTrace(s) ==
    [s EXCEPT !.pafm = s.pafm \cup {s.next_path},
              !.created = s.created \cup {s.next_path},
              !.tree = Append(s.tree, s.next_path),
              !.next_path = s.next_path + 1]

\* Lines 94-99: the primary path is traced and added to the tree.
st_run_autoTrace ==
    /\ st.pc = "run_94"
    /\ st' = [autoTrace(st) EXCEPT !.pc = "run_100", !.deg_angle = RangeStart]
    /\ UNCHANGED <<gvars, pp, fmi, roi, opt, sp, cl, ctd, sm>>

\* for deg_angle in range(10, 360, 10): a child path is traced and added.
st_run_for ==
    /\ st.pc = "run_100"
    /\ st.deg_angle < RangeStop
    /\ st' = [autoTrace(st) EXCEPT !.deg_angle = st.deg_angle + RangeStep]
    /\ UNCHANGED <<gvars, pp, fmi, roi, opt, sp, cl, ctd, sm>>

\* Lines 115-136: statistics, table, viewer and the closing dialog.
st_run_showDialog ==
    /\ st.pc = "run_100"
    /\ st.deg_angle >= RangeStop
    /\ st' = [st EXCEPT !.pc = "run_138"]
    /\ UNCHANGED <<gvars, pp, fmi, roi, opt, sp, cl, ctd, sm>>

\* Lines 138-142: the paths of the tree are deleted, the UI state and the A*
\* flag are set to the saved values.
st_run_restore ==
    /\ st.pc = "run_138"
    /\ st' = [st EXCEPT !.pc = "returned",
                        !.pafm = st.pafm \ Range(st.tree),
                        !.ui_state = st.state,
                        !.astar = st.astar_enabled]
    /\ UNCHANGED <<gvars, pp, fmi, roi, opt, sp, cl, ctd, sm>>

NextDemo ==
    \/ st_run_begin
    \/ st_run_save
    \/ st_run_enableAstar
    \/ st_run_autoTrace
    \/ st_run_for
    \/ st_run_showDialog
    \/ st_run_restore

SpecDemo == InitDemo /\ [][NextDemo]_vars

(***************************************************************************)
(* Tracing/Reconstruction_From_Skeleton.py: convertToDirected              *)
(*                                                                         *)
(* The graph is a directed graph without parallel edges: a set of vertices *)
(* V, a set E of pairs <<source, target>>, and the iteration order of the  *)
(* vertex set. graph.edgesOf(n) is a set built at the call, whose          *)
(* iteration order is not fixed: every order is taken. ctd.initial keeps   *)
(* the graph that was passed in.                                           *)
(***************************************************************************)

\* graph.degreeOf(v): edges in and out
degreeOf(g, v) == InDegree(g, v) + OutDegree(g, v)

\* Skeleton graphs: a tree on 1..n with every choice of edge directions and
\* possibly an isolated vertex, and trees with one more edge between two
\* vertices that are not joined (a cycle).
SkeletonGraphs ==
    UNION {
         {[V |-> 1..(n + iso),
           E |-> {IF k \in flip THEN <<k, p[k]>> ELSE <<p[k], k>> : k \in 2..n},
           order |-> ord] :
              p \in ParentMaps(n), flip \in SUBSET (2..n),
              ord \in Orders(n + iso)} : n \in 1..MaxNodes, iso \in 0..1}
    \cup UNION {UNION {
         {[V |-> 1..n, E |-> {<<p[k], k>> : k \in 2..n} \cup {x}, order |-> Ascending(n)] :
              x \in {y \in (1..n) \X (1..n) :
                        y[1] # y[2] /\ \A k \in 2..n : {y[1], y[2]} # {p[k], k}}} :
         p \in ParentMaps(n)} : n \in 3..MaxNodes}

InitDirected ==
    /\ GraphIdle
    /\ ctd \in {[pc |-> "ctd_21", graph |-> g, initial |-> g, r |-> NoNode,
                  stack |-> <<>>, visited |-> {}, err |-> "none"] : g \in SkeletonGraphs}
    /\ pp = Idle
    /\ fmi = Idle
    /\ roi = Idle
    /\ opt = Idle
    /\ sp = Idle
    /\ cl = Idle
    /\ st = Idle
    /\ sm = Idle

\* Lines 21-28: the vertices of degree 0 are removed; the first vertex of
\* degree 1 becomes the start r ([...][0] raises IndexError if there is none).
ctd_begin ==
    /\ ctd.pc = "ctd_21"
    /\ LET g == ctd.graph
           singletons == {v \in g.V : degreeOf(g, v) = 0}
           kept == [g EXCEPT !.V = g.V \ singletons,
                             !.order = SelectSeq(g.order, LAMBDA v : v \notin singletons)]
           ends == SelectSeq(kept.order, LAMBDA v : degreeOf(kept, v) = 1)
       IN  ctd' = IF kept.V = {}
                  THEN [ctd EXCEPT !.pc = "return", !.graph = kept]
                  ELSE IF ends = <<>>
                  THEN [ctd EXCEPT !.pc = "raised", !.err = "IndexError", !.graph = kept]
                  ELSE [ctd EXCEPT !.pc = "ctd_29", !.graph = kept, !.r = ends[1],
                                   !.stack = <<ends[1]>>, !.visited = {}]
    /\ UNCHANGED <<gvars, pp, fmi, roi, opt, sp, cl, st, sm>>

\* graph.addEdge(n, t)  (line 40)
NewEdge_reversed(n, t) == <<t, n>>

NewEdge(n, t) == <<n, t>>

\* for e in edges (lines 33-41): E and stack after the edges es of n were
\* looked at in this order.
RECURSIVE Redirect(_, _, _, _, _)
Redirect(E, stack, es, n, seen) ==
    IF es = <<>> THEN [E |-> E, stack |-> stack]
    ELSE LET e == Head(es)
             t == IF e[1] = n THEN e[2] ELSE e[1]
         IN  IF t \in seen
             THEN Redirect(E, stack, Tail(es), n, seen)
             ELSE Redirect((E \ {e}) \cup {NewEdge(n, t)}, Append(stack, t),
                           Tail(es), n, seen)

\* while len(stack) > 0 (lines 29-41): one vertex is popped and its edges are
\* directed away from it.
ctd_while ==
    /\ ctd.pc = "ctd_29"
    /\ ctd.stack # <<>>
    /\ LET n == Last(ctd.stack)
           seen == ctd.visited \cup {n}
           edges == {e \in ctd.graph.E : e[1] = n \/ e[2] = n}
       IN  \E es \in {q \in [1..Cardinality(edges) -> edges] :
                          \A a, b \in DOMAIN q : q[a] = q[b] => a = b} :
               \E res \in {Redirect(ctd.graph.E, SubSeq(ctd.stack, 1, Len(ctd.stack) - 1),
                                     es, n, seen)} :
                   ctd' = [ctd EXCEPT !.visited = seen, !.graph.E = res.E,
                                      !.stack = res.stack]
    /\ UNCHANGED <<gvars, pp, fmi, roi, opt, sp, cl, st, sm>>

\* The stack is empty: convertToDirected returns.
ctd_return ==
    /\ ctd.pc = "ctd_29"
    /\ ctd.stack = <<>>
    /\ ctd' = [ctd EXCEPT !.pc = "return"]
    /\ UNCHANGED <<gvars, pp, fmi, roi, opt, sp, cl, st, sm>>

NextDirected ==
    \/ ctd_begin
    \/ ctd_while
    \/ ctd_return

SpecDirected == InitDirected /\ [][NextDirected]_vars

\* The script is single-threaded and runs on.
FairDirected == SpecDirected /\ WF_vars(NextDirected)

\* The unordered endpoint pairs of a set of edges.
EndpointPairs(E) == {{e[1], e[2]} : e \in E}

\* The part of g that is not isolated is a tree when directions are ignored:
\* it has an edge, no loop and no pair of vertices joined twice, it is
\* connected, and it has one edge less than vertices.
TreeShaped(g) ==
    LET N == {v \in g.V : degreeOf(g, v) > 0}
    IN  /\ g.E # {}
        /\ \A e \in g.E : e[1] # e[2] /\ <<e[2], e[1]>> \notin g.E
        /\ \A v \in N : UndirectedClosure(g, {v}) = N
        /\ Cardinality(g.E) = Cardinality(N) - 1

(***************************************************************************)
(* Analysis/Sholl_Merge_Grouped_Profiles.py: main, up to the merged table  *)
(*                                                                         *)
(* A file is given by what the parsing loop finds in it: a directory, a    *)
(* file whose dialect cannot be sniffed (csv.Error), a file without header *)
(* row, a file without the two column headers (ValueError), or a table     *)
(* with one row, whose radius is a number or not. sm.all_data holds the    *)
(* entries gathered so far, sm.log the skip messages with the index of the *)
(* file, sm.table the merged table once it is shown. first_valid_idx is    *)
(* assigned nowhere in the script.                                         *)
(***************************************************************************)

ProfileFiles ==
    {[kind |-> k, radius |-> 0, numeric |-> FALSE] :
        k \in {"directory", "csv.Error", "no_header", "no_column"}}
    \cup {[kind |-> "table", radius |-> x, numeric |-> b] : x \in 1..2, b \in BOOLEAN}

InitMerge ==
    /\ GraphIdle
    /\ sm \in {[pc |-> "main_95", files |-> fs, impose_sradius |-> im, sradius |-> 2,
                 f_idx |-> 0, all_data |-> {}, log |-> <<>>, table |-> {},
                 first_valid_idx |-> "unbound", err |-> "none"] :
                fs \in UNION {[1..n -> ProfileFiles] : n \in 1..MaxFiles}, im \in BOOLEAN}
    /\ pp = Idle
    /\ fmi = Idle
    /\ roi = Idle
    /\ opt = Idle
    /\ sp = Idle
    /\ cl = Idle
    /\ st = Idle
    /\ ctd = Idle

\* for f_idx, f in enumerate(files) (lines 95-139): one file is skipped or
\* parsed. In the handler of csv.Error the message is logged and then
\* first_valid_idx += 1 reads a local variable that was never assigned, which
\* raises UnboundLocalError and leaves main.
sm_main_for ==
    /\ sm.pc = "main_95"
    /\ sm.f_idx < Len(sm.files)
    /\ LET k == sm.f_idx + 1
           f == sm.files[k]
       IN  sm' =
             IF f.kind = "directory"
             THEN [sm EXCEPT !.f_idx = k, !.log = Append(sm.log, <<k, "warn">>)]
             ELSE IF f.kind = "csv.Error"
             THEN IF sm.first_valid_idx = "unbound"
                  THEN [sm EXCEPT !.log = Append(sm.log, <<k, "error">>),
                                  !.pc = "raised", !.err = "UnboundLocalError"]
                  ELSE [sm EXCEPT !.f_idx = k, !.log = Append(sm.log, <<k, "error">>)]
             ELSE IF f.kind = "no_header"
             THEN [sm EXCEPT !.f_idx = k, !.log = Append(sm.log, <<k, "info">>)]
             ELSE IF f.kind = "no_column" \/ ~f.numeric
             THEN [sm EXCEPT !.f_idx = k, !.log = Append(sm.log, <<k, "warn">>)]
             ELSE IF sm.impose_sradius /\ f.radius < sm.sradius
             THEN [sm EXCEPT !.f_idx = k]
             ELSE [sm EXCEPT !.f_idx = k,
                             !.all_data = sm.all_data \cup
                                             {[radius |-> f.radius, filename |-> k]}]
    /\ UNCHANGED <<gvars, pp, fmi, roi, opt, sp, cl, st, ctd>>

\* Lines 141-154: without data an error is shown and main returns; otherwise
\* the merged table is assembled and shown.
sm_main_table ==
    /\ sm.pc = "main_95"
    /\ sm.f_idx = Len(sm.files)
    /\ sm' = [sm EXCEPT !.pc = "done", !.table = sm.all_data]
    /\ UNCHANGED <<gvars, pp, fmi, roi, opt, sp, cl, st, ctd>>

NextMerge ==
    \/ sm_main_for
    \/ sm_main_table

SpecMerge == InitMerge /\ [][NextMerge]_vars

(***************************************************************************)
(* Properties                                                              *)
(***************************************************************************)

\* C1: on a valid rooted tree, the length graph_diameter returns is the
\* maximum, over all tips, of the sum of the edge weights on the root-to-tip
\* path.
C1_LengthIsMaxTipDistance ==
    (Returned /\ ValidTree(graph)) => length = MaxTipDistance(graph)

\* A tree with tips at different distances whose farthest tip is not the
\* first one enumerated.
C1_Witness ==
    /\ Returned
    /\ ValidTree(graph)
    /\ Len(tips) >= 2
    /\ RootDistance(graph, tips[1]) < MaxTipDistance(graph)
    /\ length = MaxTipDistance(graph)

\* C2: on a valid rooted tree, the returned path is the node sequence from
\* the root to a tip, along edges, and its weight is the returned length.
C2_PathIsRootToTip ==
    (Returned /\ ValidTree(graph)) =>
        /\ ~path.none
        /\ path.nodes[1] = root
        /\ Last(path.nodes) \in TipSet(graph)
        /\ FollowsEdges(graph, path.nodes)
        /\ PathWeight(graph, path.nodes) = length

\* C3: with a root but no tips, or with the root as the only node, the result
\* is length 0 and the path that holds only the root.
C3_NoTipsGivesRootPath ==
    (Returned /\ (tips = <<>> \/ graph.V = {root})) =>
        /\ length = 0
        /\ path = MkPath(<<root>>, 0)

\* C4: on a valid rooted tree where several tips are at the maximal distance,
\* the returned path ends at the first of them in enumeration order.
C4_TieKeepsFirstTip ==
    (Returned /\ ValidTree(graph) /\ Len(FarthestTips(graph)) >= 2) =>
        /\ ~path.none
        /\ Last(path.nodes) = FarthestTips(graph)[1]

\* C5: on a valid rooted tree, graph_diameter_dsp returns the length that
\* graph_diameter returned.
C5_SameLengthAsDijkstra ==
    (pc = "done" /\ ValidTree(graph)) => length = Last(returned).length

\* Both functions have returned a positive length on a tree with several tips.
C5_Witness ==
    /\ pc = "done"
    /\ ValidTree(graph)
    /\ Len(tips) >= 2
    /\ length > 0
    /\ Last(returned).length = length
    /\ RootDistance(graph, Last(tips)) < length

\* C6: a graph with no node or with several nodes of in-degree 0 makes
\* graph_diameter fail with InvalidGraphError; it never returns a length and
\* a path computed from the root it was handed.
C6_RootCountChecked ==
    Cardinality(RootSet(graph)) # 1 =>
        /\ ~Returned
        /\ returned = <<>>
        /\ pc = "error" => err = "InvalidGraphError"

\* C7: a graph with a cycle, or with a component that is not connected to the
\* root, never yields a result.
C7_CycleOrDisconnectedRejected ==
    (HasCycle(graph) \/ DisconnectedFromRoot(graph)) =>
        /\ returned = <<>>
        /\ pc # "run_94"

\* C8: no step changes the graph, and while graph_diameter runs its root and
\* tips stay what they were.
C8_ReadOnly ==
    [][/\ graph' = graph
       /\ pc = "gd_35" => (root' = root /\ tips' = tips)
       /\ Returned' => (root' = getRoot(graph).node /\ tips' = getTips(graph))]_vars

\* graph_diameter has returned after measuring several tips.
C8_Witness ==
    /\ Returned
    /\ Len(visited) >= 2
    /\ ~path.none

\* C9: consecutive calls on the unmodified graph return the same length and
\* the same path.
C9_Idempotent ==
    \A k \in 1..(Len(returned) - 1) : returned[k] = returned[k + 1]

\* Two calls have returned the same path on a tree with tied tips.
C9_Witness ==
    /\ Len(returned) >= 2
    /\ ValidTree(graph)
    /\ Len(FarthestTips(graph)) >= 2
    /\ ~returned[1].path.none
    /\ returned[2] = returned[1]

\* C10: on a valid rooted tree every call of graph_diameter returns, having
\* visited each tip exactly once, in enumeration order.
C10_Terminates ==
    (pc = "run_87" /\ ValidTree(graph)) ~>
        (Returned /\ visited = tips /\ NoDuplicates(visited))

\* A call has returned after a loop over several tips.
C10_Witness ==
    /\ Returned
    /\ ValidTree(graph)
    /\ Len(tips) >= 3
    /\ visited = tips
\* C11: on a tree whose root has only leaf children, the returned length is
\* the largest root-child edge weight and the returned path is the two-node
\* path from the root to the child with that weight.
C11_StarGivesHeaviestChild ==
    (Returned /\ StarTree(graph)) =>
        /\ length = SetMax({graph.w[e] : e \in graph.E})
        /\ ~path.none
        /\ Len(path.nodes) = 2
        /\ path.nodes[1] = root
        /\ <<root, path.nodes[2]>> \in graph.E
        /\ graph.w[<<root, path.nodes[2]>>] = length

\* C12: on a balanced binary tree of depth d >= 1 with uniform edge weight 1,
\* the returned length is d and the returned path leads from the root along
\* edges to a leaf at depth d.
C12_BalancedGivesDepth ==
    \A d \in 1..(MaxDepth + 1) :
        (Returned /\ BalancedBinary(graph, d)) =>
            /\ length = d
            /\ ~path.none
            /\ Len(path.nodes) = d + 1
            /\ path.nodes[1] = root
            /\ FollowsEdges(graph, path.nodes)
            /\ Last(path.nodes) \in TipSet(graph)
            /\ Depth(graph, Last(path.nodes)) = d

\* graph_diameter has returned depth MaxDepth and a root-to-leaf path on the
\* balanced binary tree of that depth.
C12_Witness ==
    /\ Returned
    /\ BalancedBinary(graph, MaxDepth)
    /\ length = MaxDepth
    /\ ~path.none
    /\ Len(path.nodes) = MaxDepth + 1

\* C13: once a click has set the abort flag, no further node is shown (no
\* setPosition, and no Zoom but the one of the node already positioned) and
\* no further path is selected.
C13_AbortStopsAtOnce ==
    pp.abort =>
        /\ SelectsSinceAbort = 0
        /\ PositionsSinceAbort = 0
        /\ pp.n_zoom <= pp.at.n_setPosition

\* C13 (amended): once a click has set the abort flag, at most the one
\* iteration whose abort check had already passed goes on (one more select,
\* or one more setPosition with its Zoom, never both), no later path or node
\* is visited, the flag is never reset, and play_selected_paths is left.
C13_AbortStopsAfterCurrentStep ==
    /\ [](pp.abort =>
            /\ SelectsSinceAbort + PositionsSinceAbort <= 1
            /\ SelectsSinceAbort = 1 => pp.at.pc = "ps_129"
            /\ PositionsSinceAbort = 1 => pp.at.pc = "pp_91"
            /\ pp.n_zoom <= pp.n_setPosition)
    /\ [][pp.abort => pp'.abort]_vars
    /\ (pp.abort ~> PlayerLeft)

\* The flag was set after the abort check of a node had passed: that node was
\* still shown, nothing after it, and playback has ended.
C13_Witness ==
    /\ pp.pc = "returned"
    /\ pp.abort
    /\ pp.at.pc = "pp_91"
    /\ PositionsSinceAbort = 1
    /\ ZoomsSinceAbort = 1
    /\ pp.k < Len(pp.paths)

\* C20: however playback ends after the listener was added, when
\* play_selected_paths is left the mouse listener has been removed from the
\* canvas and the 'selected' visibility filter is off.
C20_ListenerRemovedFilterOff ==
    (PlayerLeft /\ pp.added) => (~pp.listener /\ ~pp.filter_selected)

\* C14: every image filtered in one run is filtered with the scales the user
\* entered multiplied by the average voxel spacing of that image, whatever
\* images were processed before it.
C14_ScalesFromOwnSpacing ==
    \A c \in DOMAIN fmi.Tubeness :
        fmi.Tubeness[c].scales = Scaled(fmi.entered, AvgSep(fmi.files[fmi.Tubeness[c].f]))

\* C15: for a ROI that lies within the image and any shift dr, shift_roi
\* returns a ROI of the same width and height that lies entirely inside the
\* image, moved only as far as the border allows.
C15_ShiftedRoiInside ==
    (roi.pc = "return" /\ ~roi.roi.none /\ Within(roi.roi, roi.imp)) =>
        /\ ~roi.shifted_roi.none
        /\ roi.shifted_roi.width = roi.roi.width
        /\ roi.shifted_roi.height = roi.roi.height
        /\ Within(roi.shifted_roi, roi.imp)
        /\ AsFarAsBorderAllows(roi.roi.x, roi.dr.x2, roi.roi.width, roi.imp.width,
                               roi.shifted_roi.x)
        /\ AsFarAsBorderAllows(roi.roi.y, roi.dr.y2, roi.roi.height, roi.imp.height,
                               roi.shifted_roi.y)

\* A ROI inside the image was stopped at the right border in x and moved by
\* the whole pixels of a fractional shift in y.
C15_Witness ==
    /\ roi.pc = "return"
    /\ ~roi.roi.none
    /\ Within(roi.roi, roi.imp)
    /\ 2 * (roi.roi.x + roi.roi.width) + roi.dr.x2 > 2 * roi.imp.width
    /\ roi.shifted_roi.x = roi.imp.width - roi.roi.width
    /\ roi.dr.y2 = -1
    /\ roi.roi.y > 0
    /\ roi.shifted_roi.y = roi.roi.y

\* C18: with a background of -1 the intensity cutoff of the options is half
\* of the image maximum; with a background of 0 or more it is the value that
\* was entered.
C18_DefaultCutoffIsHalfMax ==
    opt.pc = "return" =>
        IF opt.background = -1
        THEN 2 * opt.options.background = opt.max
        ELSE opt.options.background = opt.background

\* C17: when shift_paths returns, every node of every path whose frame f is
\* in 1..len(shifts) has been moved exactly once, by the calibrated shift of
\* frame f, and the paths in other frames are unchanged.
C17_PathsShiftedOncePerFrame ==
    sp.pc = "return" =>
        \A a \in DOMAIN sp.paths :
            LET f == sp.paths[a].frame
                start == StartNodes(Len(sp.paths[a].nodes))
            IN  IF f \in 1..Len(sp.inverted_shifts)
                THEN /\ \A j \in DOMAIN sp.moves[a] : sp.moves[a][j] = 1
                     /\ sp.paths[a].nodes =
                            MoveNodes(start, CalibratedShift(sp.cal, sp.inverted_shifts[f]))
                ELSE /\ \A j \in DOMAIN sp.moves[a] : sp.moves[a][j] = 0
                     /\ sp.paths[a].nodes = start

\* shift_paths has returned: a path of several nodes in the last frame was
\* moved by a shift that is not zero, next to a path outside the frames.
C17_Witness ==
    /\ sp.pc = "return"
    /\ Len(sp.inverted_shifts) = MaxFrames
    /\ \E a, b \in DOMAIN sp.paths :
           /\ sp.paths[a].frame = MaxFrames
           /\ Len(sp.paths[a].nodes) > 1
           /\ sp.paths[a].nodes # StartNodes(Len(sp.paths[a].nodes))
           /\ sp.moves[a][1] = 1
           /\ sp.paths[b].frame > MaxFrames
           /\ sp.paths[b].nodes = StartNodes(Len(sp.paths[b].nodes))

\* C16: a particle is tagged Junction, Tip or J+T if and only if a junction
\* voxel or an end-point lies within the cutoff distance of its centroid, and
\* Unc otherwise. Tip: the nearest in-range end-point is closer than the
\* nearest in-range junction voxel (or there is none); Junction: the
\* converse; J+T: both exist and their distances differ by at most half a
\* pixel. Unknown is never assigned.
C16_TagsFollowNearestFeatures ==
    \A k \in DOMAIN cl.overlay :
        LET tag == cl.overlay[k]
            J  == InRangeOf(cl.centroids[k], cl.junction_voxels, cl.cutoff_dist)
            T  == InRangeOf(cl.centroids[k], cl.end_points, cl.cutoff_dist)
            px == pixel_size(cl.cal)
            both == J # {} /\ T # {} /\ DifferByAtMostHalf(SetMin(J), SetMin(T), px)
        IN  /\ tag # "Unknown"
            /\ tag \in {"Junction", "Tip", "J+T"} <=> (J # {} \/ T # {})
            /\ tag = "Unc" <=> (J = {} /\ T = {})
            /\ tag = "J+T" <=> both
            /\ tag = "Tip" <=> (~both /\ T # {} /\ (J = {} \/ SetMin(T) < SetMin(J)))
            /\ tag = "Junction" <=> (~both /\ J # {} /\ (T = {} \/ SetMin(J) < SetMin(T)))

\* A particle was tagged Tip with its nearest end-point closer than a
\* junction voxel that lies exactly at the cutoff distance.
C16_Witness ==
    \E k \in DOMAIN cl.overlay :
        LET J == InRangeOf(cl.centroids[k], cl.junction_voxels, cl.cutoff_dist)
            T == InRangeOf(cl.centroids[k], cl.end_points, cl.cutoff_dist)
        IN  /\ cl.overlay[k] = "Tip"
            /\ J # {}
            /\ T # {}
            /\ SetMin(J) = cl.cutoff_dist * cl.cutoff_dist
            /\ SetMin(T) < SetMin(J)

\* C19: when run() has completed, the UI state and the A* flag are those of
\* the start of the script, no path the script created is left in the
\* path-and-fill manager, and a run that traced has created 1 + 35 paths.
C19_StatusRestored ==
    st.pc = "returned" =>
        /\ st.ui_state = st.initial.ui_state
        /\ st.astar = st.initial.astar
        /\ st.created \cap st.pafm = {}
        /\ st.created # {} => Cardinality(st.created) = 1 + 35

\* run() has completed after tracing 36 paths, on a plugin that started
\* paused, with A* enabled and with paths of its own, which are still there.
C19_Witness ==
    /\ st.pc = "returned"
    /\ Cardinality(st.created) = 1 + 35
    /\ st.initial.ui_state = "TRACING_PAUSED"
    /\ st.initial.astar
    /\ st.ui_state = "TRACING_PAUSED"
    /\ st.astar
    /\ st.pafm = 1..MaxPaths

\* C22: on a valid rooted tree with at least one edge, graph_diameter returns
\* a path that is not None and ends at a tip, also when every root-to-tip
\* path has length 0.
C22_PathNeverNone ==
    (Returned /\ ValidTree(graph) /\ graph.E # {}) =>
        /\ ~path.none
        /\ Last(path.nodes) \in TipSet(graph)

\* C23: on a graph whose non-isolated part is tree-shaped, whatever the edge
\* directions, convertToDirected returns, and when it has returned the
\* isolated vertices are gone, the start vertex r has in-degree 0, every
\* other vertex has in-degree 1, and the unordered endpoint pairs of the
\* edges are those of the graph passed in.
C23_ConvertToDirectedGivesRootedTree ==
    /\ [](ctd.pc = "return" /\ TreeShaped(ctd.initial) =>
            /\ ctd.graph.V = {v \in ctd.initial.V : degreeOf(ctd.initial, v) > 0}
            /\ ctd.r \in ctd.graph.V
            /\ \A v \in ctd.graph.V : InDegree(ctd.graph, v) = IF v = ctd.r THEN 0 ELSE 1
            /\ EndpointPairs(ctd.graph.E) = EndpointPairs(ctd.initial.E)
            /\ Cardinality(ctd.graph.E) = Cardinality(ctd.initial.E))
    /\ ((ctd.pc = "ctd_21" /\ TreeShaped(ctd.initial)) ~> ctd.pc = "return")

\* convertToDirected has returned on a graph of MaxNodes vertices in a tree
\* and an isolated one, after turning at least one edge around.
C23_Witness ==
    /\ ctd.pc = "return"
    /\ TreeShaped(ctd.initial)
    /\ Cardinality(ctd.initial.V) = MaxNodes + 1
    /\ Cardinality(ctd.graph.V) = MaxNodes
    /\ ctd.graph.E # ctd.initial.E
    /\ InDegree(ctd.graph, ctd.r) = 0

\* C21: when main is left, every file whose dialect could not be determined
\* was skipped with an error entry in the log, the files after it were still
\* looked at, and the rows gathered from the tables before it are in the
\* merged table.
C21_UnreadableFileOnlySkipped ==
    sm.pc \in {"done", "raised"} =>
        \A k \in DOMAIN sm.files :
            sm.files[k].kind = "csv.Error" =>
                /\ <<k, "error">> \in Range(sm.log)
                /\ sm.f_idx = Len(sm.files)
                /\ \A j \in 1..(k - 1) :
                       (/\ sm.files[j].kind = "table"
                        /\ sm.files[j].numeric
                        /\ ~(sm.impose_sradius /\ sm.files[j].radius < sm.sradius))
                       => [radius |-> sm.files[j].radius, filename |-> j] \in sm.table

============================================================================
